---- MODULE Spec2Model ----
(***************************************************************************)
(* Model of the schema-mapped ingestion pipeline of python-pipeline/       *)
(* hydration: SchemaMapper (schema_mapper.py), the CSV and SQL source      *)
(* adapters (adapters/) and Phonograph.ingest_from_source, its async       *)
(* wrapper and StreamingPhonograph.stream_from_kafka (phonograph.py).      *)
(*                                                                         *)
(* Python values are records [t |-> type tag, v |-> payload].  A str is a  *)
(* sequence of one-character strings, so that parsing, formatting and case *)
(* conversion are computed and not assumed.                                *)
(***************************************************************************)
EXTENDS Integers, Sequences, FiniteSets, TLC

\* ------------------------------------------------------------------------
\* Python values
\* ------------------------------------------------------------------------

NoneV == [t |-> "none", v |-> 0]
BoolV(b) == [t |-> "bool", v |-> b]
IntV(n) == [t |-> "int", v |-> n]
StrV(s) == [t |-> "str", v |-> s]
\* the empty list, the one non-scalar value of the model
ListV == [t |-> "list", v |-> 0]
\* a finite float is (-1)^neg * m / 10^e with m not divisible by 10 when e > 0
FloatV(neg, m, e) == [t |-> "float", v |-> [k |-> "fin", neg |-> neg, m |-> m, e |-> e]]
InfV(neg) == [t |-> "float", v |-> [k |-> "inf", neg |-> neg, m |-> 0, e |-> 0]]
NanV == [t |-> "float", v |-> [k |-> "nan", neg |-> FALSE, m |-> 0, e |-> 0]]

Digits == <<"0", "1", "2", "3", "4", "5", "6", "7", "8", "9">>
DigitSet == {Digits[i] : i \in 1..10}
DigitVal(c) == (CHOOSE i \in 1..10 : Digits[i] = c) - 1

Lowers == <<"a", "b", "c", "d", "e", "f", "g", "h", "i", "j", "k", "l", "m",
            "n", "o", "p", "q", "r", "s", "t", "u", "v", "w", "x", "y", "z">>
Uppers == <<"A", "B", "C", "D", "E", "F", "G", "H", "I", "J", "K", "L", "M",
            "N", "O", "P", "Q", "R", "S", "T", "U", "V", "W", "X", "Y", "Z">>

\* str.lower() and str.upper(), character by character
LowerChar(c) ==
    IF \E i \in 1..26 : Uppers[i] = c
    THEN Lowers[CHOOSE i \in 1..26 : Uppers[i] = c]
    ELSE c
UpperChar(c) ==
    IF \E i \in 1..26 : Lowers[i] = c
    THEN Uppers[CHOOSE i \in 1..26 : Lowers[i] = c]
    ELSE c
str_lower(s) == [i \in 1..Len(s) |-> LowerChar(s[i])]
str_upper(s) == [i \in 1..Len(s) |-> UpperChar(s[i])]

\* str.strip() of ASCII blanks, which int() and float() apply to a str argument
RECURSIVE LStrip(_)
LStrip(s) == IF s # <<>> /\ Head(s) = " " THEN LStrip(Tail(s)) ELSE s
RECURSIVE RStrip(_)
RStrip(s) ==
    IF s # <<>> /\ s[Len(s)] = " " THEN RStrip(SubSeq(s, 1, Len(s) - 1)) ELSE s
Strip(s) == RStrip(LStrip(s))

HasSign(s) == s # <<>> /\ Head(s) \in {"-", "+"}
Unsigned(s) == IF HasSign(s) THEN Tail(s) ELSE s
AllDigits(s) == \A i \in 1..Len(s) : s[i] \in DigitSet

RECURSIVE DigitsVal(_)
DigitsVal(s) ==
    IF s = <<>> THEN 0
    ELSE 10 * DigitsVal(SubSeq(s, 1, Len(s) - 1)) + DigitVal(s[Len(s)])

RECURSIVE NatStr(_)
NatStr(n) ==
    IF n < 10 THEN <<Digits[n + 1]>> ELSE NatStr(n \div 10) \o <<Digits[(n % 10) + 1]>>

RECURSIVE Pow10(_)
Pow10(e) == IF e = 0 THEN 1 ELSE 10 * Pow10(e - 1)

\* the canonical form of m / 10^e
RECURSIVE NormFloat(_, _, _)
NormFloat(neg, m, e) ==
    IF e > 0 /\ m % 10 = 0 THEN NormFloat(neg, m \div 10, e - 1) ELSE FloatV(neg, m, e)

\* the outcome of a call: exc = "none" and the value, or the exception raised
Ok(val) == [exc |-> "none", val |-> val]
Raise(e) == [exc |-> e, val |-> NoneV]

\* ------------------------------------------------------------------------
\* The callables of the transformation registry (schema_mapper.py:94-100)
\* ------------------------------------------------------------------------

\* bool(x): the truth value Python gives x in "if x"
Truthy(x) ==
    CASE x.t = "none" -> FALSE
      [] x.t = "bool" -> x.v
      [] x.t = "int" -> x.v # 0
      [] x.t = "str" -> x.v # <<>>
      [] x.t = "list" -> FALSE
      [] x.t = "float" -> ~(x.v.k = "fin" /\ x.v.m = 0)

\* the fractional digits of m / 10^e, zero-padded to e places
RECURSIVE FracStr(_, _)
FracStr(r, e) ==
    IF e = 0 THEN <<>> ELSE FracStr(r \div 10, e - 1) \o <<Digits[(r % 10) + 1]>>

\* str(x)
py_str(x) ==
    CASE x.t = "str" -> x.v
      [] x.t = "none" -> <<"N", "o", "n", "e">>
      [] x.t = "bool" ->
            IF x.v THEN <<"T", "r", "u", "e">> ELSE <<"F", "a", "l", "s", "e">>
      [] x.t = "int" ->
            IF x.v < 0 THEN <<"-">> \o NatStr(-x.v) ELSE NatStr(x.v)
      [] x.t = "list" -> <<"[", "]">>
      [] x.t = "float" ->
            LET f == x.v
                sign == IF f.neg THEN <<"-">> ELSE <<>>
            IN  CASE f.k = "inf" -> sign \o <<"i", "n", "f">>
                  [] f.k = "nan" -> <<"n", "a", "n">>
                  [] f.k = "fin" ->
                        sign \o NatStr(f.m \div Pow10(f.e)) \o <<".">>
                             \o (IF f.e = 0 THEN <<"0">>
                                 ELSE FracStr(f.m % Pow10(f.e), f.e))

\* int(f) of a float: truncation toward zero
py_int_of_float(f) ==
    CASE f.k = "inf" -> Raise("OverflowError")
      [] f.k = "nan" -> Raise("ValueError")
      [] f.k = "fin" ->
            LET q == f.m \div Pow10(f.e)
            IN  Ok(IntV(IF f.neg THEN -q ELSE q))

\* int(x)
py_int(x) ==
    CASE x.t = "int" -> Ok(x)
      [] x.t = "bool" -> Ok(IntV(IF x.v THEN 1 ELSE 0))
      [] x.t = "float" -> py_int_of_float(x.v)
      [] x.t = "str" ->
            LET s == Strip(x.v)
                body == Unsigned(s)
            IN  IF body # <<>> /\ AllDigits(body)
                THEN Ok(IntV(IF Head(s) = "-" THEN -DigitsVal(body) ELSE DigitsVal(body)))
                ELSE Raise("ValueError")
      [] OTHER -> Raise("TypeError")

\* the decimal literals float() accepts: digits with at most one point and at
\* least one digit (the strings of the model hold no exponent and no underscore)
IsDecimal(body) ==
    /\ \A i \in 1..Len(body) : body[i] \in DigitSet \cup {"."}
    /\ Cardinality({i \in 1..Len(body) : body[i] = "."}) <= 1
    /\ \E i \in 1..Len(body) : body[i] \in DigitSet

DecimalVal(neg, body) ==
    LET dots == {i \in 1..Len(body) : body[i] = "."}
        p == IF dots = {} THEN Len(body) + 1 ELSE CHOOSE i \in dots : TRUE
        ip == SubSeq(body, 1, p - 1)
        fp == SubSeq(body, p + 1, Len(body))
    IN  NormFloat(neg, DigitsVal(ip \o fp), Len(fp))

\* float(x)
py_float(x) ==
    CASE x.t = "float" -> Ok(x)
      [] x.t = "int" -> Ok(FloatV(x.v < 0, IF x.v < 0 THEN -x.v ELSE x.v, 0))
      [] x.t = "bool" -> Ok(FloatV(FALSE, IF x.v THEN 1 ELSE 0, 0))
      [] x.t = "str" ->
            LET s == Strip(x.v)
                neg == s # <<>> /\ Head(s) = "-"
                body == Unsigned(s)
                word == str_lower(body)
            IN  IF word \in {<<"i", "n", "f">>,
                             <<"i", "n", "f", "i", "n", "i", "t", "y">>}
                THEN Ok(InfV(neg))
                ELSE IF word = <<"n", "a", "n">> THEN Ok(NanV)
                ELSE IF IsDecimal(body) THEN Ok(DecimalVal(neg, body))
                ELSE Raise("ValueError")
      [] OTHER -> Raise("TypeError")

\* the names of the registry
Registry == {"to_string", "to_int", "to_float", "to_lower", "to_upper"}

\* transformations[transformation](value)
RegistryCall(transformation, value) ==
    CASE transformation = "to_string" -> Ok(StrV(py_str(value)))
      [] transformation = "to_int" -> py_int(value)
      [] transformation = "to_float" -> py_float(value)
      [] transformation = "to_lower" -> Ok(StrV(str_lower(py_str(value))))
      [] transformation = "to_upper" -> Ok(StrV(str_upper(py_str(value))))

\* SchemaMapper._apply_transformation: only ValueError and TypeError are caught
apply_transformation(transformation, value) ==
    IF transformation \in Registry
    THEN LET r == RegistryCall(transformation, value)
         IN  IF r.exc \in {"ValueError", "TypeError"} THEN Ok(value) ELSE r
    ELSE Ok(value)

\* ------------------------------------------------------------------------
\* Rows, mappings and SchemaMapper (schema_mapper.py)
\* ------------------------------------------------------------------------

\* A row is a dict: a function from the columns it holds to Python values.
Columns == {"id", "val"}
Targets == {"p", "q"}

\* dict.get(key, default) and dict.get(key)
DictGet(d, key, default) == IF key \in DOMAIN d THEN d[key] ELSE default
RowGet(row, column) == DictGet(row, column, NoneV)

\* PropertyMapping.transformation = None (or any falsy name)
NoTransformation == ""
\* a name that is not in the registry
UnknownTransformation == "to_date"
TransformationNames == Registry \cup {UnknownTransformation, NoTransformation}

PropertyMapping(source_column, target_property, transformation) ==
    [source_column |-> source_column, target_property |-> target_property,
     transformation |-> transformation]

\* a required field that the mapping document leaves out
Missing == "<missing>"
\* a required field that holds a value of the wrong type (a list for a str)
IllTyped == "<ill-typed>"

\* "if source_value is not None" of map_row
IsPresentTruthy(source_value) == Truthy(source_value)
IsPresent(source_value) == source_value # NoneV

\* properties[target_property] = value
DictSet(d, key, value) ==
    [k \in DOMAIN d \cup {key} |-> IF k = key THEN value ELSE d[k]]

EmptyDict == [k \in {} |-> NoneV]

\* the loop of map_row over property_mappings[i..]; an exception that
\* _apply_transformation lets through ends the loop and the call
RECURSIVE MapFrom(_, _, _, _)
MapFrom(pms, i, source_row, properties) ==
    IF i > Len(pms) THEN [exc |-> "none", properties |-> properties]
    ELSE LET pm == pms[i]
             source_value == RowGet(source_row, pm.source_column)
         IN  IF IsPresent(source_value)
             THEN IF pm.transformation # NoTransformation
                  THEN LET r == apply_transformation(pm.transformation, source_value)
                       IN  IF r.exc # "none"
                           THEN [exc |-> r.exc, properties |-> EmptyDict]
                           ELSE MapFrom(pms, i + 1, source_row,
                                        DictSet(properties, pm.target_property, r.val))
                  ELSE MapFrom(pms, i + 1, source_row,
                               DictSet(properties, pm.target_property, source_value))
             ELSE MapFrom(pms, i + 1, source_row, properties)

\* SchemaMapper.map_row: [exc, properties]
map_row(mapping, source_row) == MapFrom(mapping.property_mappings, 1, source_row, EmptyDict)

\* SchemaMapper.extract_primary_key
extract_primary_key_no_default(mapping, source_row) ==
    StrV(py_str(RowGet(source_row, mapping.primary_key_mapping.source_column)))
extract_primary_key(mapping, source_row) ==
    StrV(py_str(DictGet(source_row, mapping.primary_key_mapping.source_column,
                        StrV(<<>>))))

\* SchemaMapping(**mapping_data): the model's validation refuses a document
\* that lacks a required field; a transformation is any Optional[str]
SchemaMappingStrict(mapping_data) ==
    IF \/ mapping_data.object_type_id \in {Missing, IllTyped}
       \/ \E i \in 1..Len(mapping_data.property_mappings) :
             mapping_data.property_mappings[i].transformation
                \notin Registry \cup {NoTransformation}
    THEN "ValidationError" ELSE "none"
SchemaMapping(mapping_data) ==
    IF mapping_data.object_type_id \in {Missing, IllTyped} THEN "ValidationError" ELSE "none"

\* the key under which _load_mappings stores a mapping
MappingKeyTypeOnly(mapping) == mapping.object_type_id
MappingKey(mapping) ==
    DictGet(mapping.source_config, "identifier", mapping.object_type_id)

\* the loop of _load_mappings over config['mappings'][i..]
RECURSIVE LoadFrom(_, _, _)
LoadFrom(entries, i, loaded) ==
    IF i > Len(entries) THEN [exc |-> "none", mappings |-> loaded]
    ELSE IF SchemaMapping(entries[i]) # "none"
         THEN [exc |-> SchemaMapping(entries[i]), mappings |-> loaded]
         ELSE LoadFrom(entries, i + 1, DictSet(loaded, MappingKey(entries[i]), entries[i]))

\* SchemaMapper.__init__ with _load_mappings: [exc, mappings]
load_mappings_partial(mapping_config) ==
    [exc |-> "none",
     mappings |-> LoadFrom(DictGet(mapping_config, "mappings", <<>>), 1,
                           [k \in {} |-> Missing]).mappings]
load_mappings(mapping_config) ==
    LoadFrom(DictGet(mapping_config, "mappings", <<>>), 1, [k \in {} |-> Missing])

\* SchemaMapper.get_mapping: self.mappings.get(source_identifier), found
\* telling whether the result is a mapping (TRUE) or None
get_mapping(mappings, source_identifier) ==
    IF source_identifier \in DOMAIN mappings
    THEN [k |-> source_identifier, found |-> TRUE, mapping |-> mappings[source_identifier]]
    ELSE [k |-> source_identifier, found |-> FALSE, mapping |-> NoneV]

\* ------------------------------------------------------------------------
\* Source adapters (adapters/csv_adapter.py, adapters/sql_adapter.py)
\* ------------------------------------------------------------------------

Min(a, b) == IF a < b THEN a ELSE b

\* What the next() of CSVAdapter.read_rows does once `pulled` rows have been
\* taken from the DictReader and `count` rows have been yielded: the reader is
\* asked for a row first, and the limit is looked at afterwards.
csv_read_next(rows, lim, pulled, count) ==
    IF pulled >= Len(rows) THEN [kind |-> "stop", pulled |-> pulled]
    ELSE IF Truthy(lim) /\ count >= lim.v THEN [kind |-> "stop", pulled |-> pulled + 1]
    ELSE [kind |-> "row", pulled |-> pulled + 1]

\* The rows the query of SQLAdapter.read_rows selects: LIMIT is appended only
\* when `limit` is truthy.
sql_result(rows, lim) ==
    IF Truthy(lim) THEN SubSeq(rows, 1, Min(lim.v, Len(rows))) ELSE rows

sql_read_next(rows, lim, pulled, count) ==
    IF pulled >= Len(sql_result(rows, lim)) THEN [kind |-> "stop", pulled |-> pulled]
    ELSE [kind |-> "row", pulled |-> pulled + 1]

\* get_schema(): the names of the columns the source declares (the header of
\* the CSV file, the columns of the SQL table)
get_schema(kind) == Columns

read_next(kind, rows, lim, pulled, count) ==
    IF kind = "csv" THEN csv_read_next(rows, lim, pulled, count)
    ELSE sql_read_next(rows, lim, pulled, count)

\* ------------------------------------------------------------------------
\* Phonograph (phonograph.py)
\* ------------------------------------------------------------------------

\* "if len(batch) >= batch_size"
BatchFullStrict(b, size) == Len(b) > size
BatchFull(b, size) == Len(b) >= size

\* _process_batch: the sink calls a batch makes, outcomes[i] telling whether
\* the sink returns (TRUE) or raises (FALSE) for object i.  Without a sink
\* callback the objects are only logged.
process_batch_abort(b, outcomes, has_sink, batch_no) ==
    IF has_sink
    THEN LET bad == {i \in 1..Len(b) : ~outcomes[i]}
             last == IF bad = {} THEN Len(b)
                     ELSE CHOOSE i \in bad : \A j \in bad : i <= j
         IN  [i \in 1..last |-> [obj |-> b[i], ok |-> outcomes[i], batch_no |-> batch_no]]
    ELSE <<>>
process_batch_reversed(b, outcomes, has_sink, batch_no) ==
    IF has_sink
    THEN [i \in 1..Len(b) |->
             [obj |-> b[Len(b) + 1 - i], ok |-> outcomes[i], batch_no |-> batch_no]]
    ELSE <<>>
process_batch_retry(b, outcomes, has_sink, batch_no) ==
    IF has_sink
    THEN LET made == [i \in 1..Len(b) |->
                         [obj |-> b[i], ok |-> outcomes[i], batch_no |-> batch_no]]
         IN  made \o SelectSeq(made, LAMBDA c : ~c.ok)
    ELSE <<>>
process_batch(b, outcomes, has_sink, batch_no) ==
    IF has_sink
    THEN [i \in 1..Len(b) |-> [obj |-> b[i], ok |-> outcomes[i], batch_no |-> batch_no]]
    ELSE <<>>

\* "if batch:" after the loop
NothingRemains(b) == FALSE
HasRemaining(b) == b # <<>>

\* where control goes when an exception leaves the try block: the except
\* clause re-raises and the finally clause disconnects
SkipFinally == "done"
NeverLeaves == "raising"
OnException == "finally"

\* what the caller gets of total_ingested when the run raises: nothing
CountWithError(total) == IntV(total)
ResultOnError(total) == NoneV

\* ------------------------------------------------------------------------
\* StreamingPhonograph: the handling of one message (phonograph.py:191-212)
\* ------------------------------------------------------------------------

\* A payload is read as its sequence of JSON tokens.
TP(c) == [tok |-> c]
TStr(s) == [tok |-> "string", v |-> s]
TNum(neg, digits) == [tok |-> "number", neg |-> neg, v |-> digits]
TLit(name) == [tok |-> "literal", v |-> name]

\* the literals json.loads accepts, NaN and Infinity included
JsonLiterals == {"null", "true", "false", "NaN", "Infinity", "-Infinity"}

DictV(row) == [t |-> "dict", v |-> row]

IsJsonScalar(tk) ==
    \/ tk.tok \in {"string", "number"}
    \/ tk.tok = "literal" /\ tk.v \in JsonLiterals

JsonScalar(tk) ==
    IF tk.tok = "string" THEN StrV(tk.v)
    ELSE IF tk.tok = "number"
    THEN IntV(IF tk.neg THEN -DigitsVal(tk.v) ELSE DigitsVal(tk.v))
    ELSE IF tk.v = "null" THEN NoneV
    ELSE IF tk.v = "true" THEN BoolV(TRUE)
    ELSE IF tk.v = "false" THEN BoolV(FALSE)
    ELSE IF tk.v = "NaN" THEN NanV
    ELSE InfV(tk.v = "-Infinity")

\* the key of a dict for the text of a JSON member name
KeyName(s) ==
    IF s = <<"i", "d">> THEN "id"
    ELSE IF s = <<"v", "a", "l">> THEN "val"
    ELSE "other"

\* the members of an object from token i on: name : scalar, then , or }
\* (the texts of the model nest no object and no array in an object)
RECURSIVE JsonMembers(_, _, _)
JsonMembers(toks, i, obj) ==
    IF /\ i + 3 <= Len(toks)
       /\ toks[i].tok = "string"
       /\ toks[i + 1].tok = ":"
       /\ IsJsonScalar(toks[i + 2])
    THEN LET o == DictSet(obj, KeyName(toks[i].v), JsonScalar(toks[i + 2]))
         IN  IF toks[i + 3].tok = "}" /\ i + 3 = Len(toks) THEN Ok(DictV(o))
             ELSE IF toks[i + 3].tok = "," THEN JsonMembers(toks, i + 4, o)
             ELSE Raise("JSONDecodeError")
    ELSE Raise("JSONDecodeError")

\* json.loads(text): an object, the empty array or a scalar; anything else is
\* a JSONDecodeError
json_loads(toks) ==
    IF toks = <<>> THEN Raise("JSONDecodeError")
    ELSE IF toks[1].tok = "{"
    THEN IF Len(toks) = 2 /\ toks[2].tok = "}" THEN Ok(DictV(EmptyDict))
         ELSE JsonMembers(toks, 2, EmptyDict)
    ELSE IF toks[1].tok = "["
    THEN IF Len(toks) = 2 /\ toks[2].tok = "]" THEN Ok(ListV)
         ELSE Raise("JSONDecodeError")
    ELSE IF Len(toks) = 1 /\ IsJsonScalar(toks[1]) THEN Ok(JsonScalar(toks[1]))
    ELSE Raise("JSONDecodeError")

\* msg.value(): None, or bytes that are the UTF-8 encoding of a text or not
BytesV(utf8, toks) == [t |-> "bytes", utf8 |-> utf8, text |-> toks]

\* msg.value().decode('utf-8')
decode_utf8(value) ==
    IF value.t # "bytes" THEN Raise("AttributeError")
    ELSE IF ~value.utf8 THEN Raise("UnicodeDecodeError")
    ELSE Ok(value.text)

\* the inner try block: [exc, sink], exc the exception raised in it ("none":
\* none) and sink the sink calls made, sink_ok telling whether the sink returns
process_message(mapping, value, has_sink, sink_ok) ==
    LET text == decode_utf8(value)
        message_data == IF text.exc = "none" THEN json_loads(text.val) ELSE text
        no_call == <<>>
    IN  IF message_data.exc # "none" THEN [exc |-> message_data.exc, sink |-> no_call]
        ELSE IF message_data.val.t # "dict"
        THEN [exc |-> "AttributeError", sink |-> no_call]
        ELSE LET source_row == message_data.val.v
                 m == map_row(mapping, source_row)
                 primary_key == extract_primary_key(mapping, source_row)
                 obj == <<mapping.object_type_id, primary_key, m.properties>>
             IN  IF m.exc # "none" THEN [exc |-> m.exc, sink |-> no_call]
                 ELSE IF ~has_sink THEN [exc |-> "none", sink |-> no_call]
                 ELSE [exc |-> IF sink_ok THEN "none" ELSE "SinkError",
                       sink |-> <<[obj |-> obj, ok |-> sink_ok, batch_no |-> 0]>>]

\* "except json.JSONDecodeError ... continue / except Exception ... continue":
\* whether an exception of the inner try block leaves the poll loop
MessageErrorEndsOnParse(exc) == exc = "JSONDecodeError"
MessageErrorEnds(exc) == FALSE

\* "if not KAFKA_AVAILABLE: raise RuntimeError"
BackendNeverMissing(available) == FALSE
BackendMissing(available) == ~available

\* what msg.error() of a polled message says: None for a payload, and an
\* error event otherwise (_PARTITION_EOF, or another code, of which the
\* model has the fatal ones); the loop skips every error event
IsErrorEvent(kind) == kind \in {"eof", "fatal"}

\* "finally: self.running = False"
RunningKept(r) == r
RunningAfterFinally(r) == FALSE

\* ------------------------------------------------------------------------
\* Bounds and inputs
\* ------------------------------------------------------------------------

MaxRows == 3
MaxBatch == 3
MaxLimit == 3
MaxMappings == 2
MaxPolls == 3
MaxEntries == 3
MaxTwoRows == 2

Str1 == <<"1">>
Str10 == <<"1", "0">>
StrAbc == <<"a", "b", "c">>

\* the rows a CSV file can hold (DictReader yields str values, and None for a
\* field the line lacks) and the rows a SQL table can hold
CsvRows ==
    { [id |-> StrV(Str1), val |-> StrV(Str10)],
      [id |-> StrV(<<"2">>), val |-> StrV(StrAbc)],
      [id |-> StrV(<<"3">>), val |-> NoneV] }
SqlRows ==
    { [id |-> StrV(Str1), val |-> StrV(Str10)],
      [id |-> IntV(2), val |-> StrV(StrAbc)],
      [id |-> IntV(3), val |-> InfV(FALSE)] }

SeqsUpTo(S, n) == UNION {[1..k -> S] : k \in 0..n}

Sources(kind) == SeqsUpTo(IF kind = "csv" THEN CsvRows ELSE SqlRows, MaxRows)

Limits == {NoneV} \cup {IntV(l) : l \in 0..MaxLimit}

\* the mapping of a run: `val` through a transformation, the key from `id`
RunMapping(transformation) ==
    [source_type |-> "csv",
     source_config |-> [identifier |-> "things"],
     object_type_id |-> "Thing",
     property_mappings |-> <<PropertyMapping("val", "p", transformation)>>,
     primary_key_mapping |-> PropertyMapping("id", "id", NoTransformation)]
RunMappings == {RunMapping("to_int"), RunMapping(NoTransformation)}
\* a mapping that also names a column no source of the model declares
UnresolvedMapping ==
    [RunMapping(NoTransformation) EXCEPT
        !.property_mappings = Append(@, PropertyMapping("ghost", "q", NoTransformation))]

\* the str values a field may hold: the empty string, digits, letters, signs,
\* decimal points and blanks (no exponent, no underscore)
Strings ==
    {<<>>, Str1, <<"a">>, <<"-">>, <<".">>, <<" ">>, Str10, StrAbc, <<"A", "b">>,
     <<"1", ".", "5">>, <<".", "5">>, <<"-", "1">>, <<"-", "0">>, <<"1", "a">>,
     <<" ", "1", " ">>}

\* the values a field of a row may hold
Values ==
    {StrV(s) : s \in Strings}
        \cup {IntV(0), IntV(10), IntV(-1), BoolV(TRUE), BoolV(FALSE)}
        \cup {FloatV(FALSE, 15, 1), FloatV(TRUE, 5, 1), FloatV(FALSE, 0, 0)}
        \cup {InfV(FALSE), InfV(TRUE), NanV, NoneV, ListV}
IdValues == {StrV(Str1), NoneV}

\* rows over the columns id and val, each of which may be absent
Rows ==
    {[c \in {} |-> NoneV]}
        \cup {[c \in {"id"} |-> i] : i \in IdValues}
        \cup {[c \in {"val"} |-> v] : v \in Values}
        \cup {[id |-> i, val |-> v] : i \in IdValues, v \in Values}

PropertyMappings ==
    {PropertyMapping(c, t, f) : c \in Columns, t \in Targets, f \in TransformationNames}

\* one entry of the `mappings` list of a mapping document
MappingData(object_type_id, source_config, pms, key_column) ==
    [source_type |-> "csv",
     source_config |-> source_config,
     object_type_id |-> object_type_id,
     property_mappings |-> pms,
     primary_key_mapping |-> PropertyMapping(key_column, "id", NoTransformation)]

NoIdentifier == [k \in {} |-> ""]
Config(entries) == [mappings |-> entries]

\* documents for map_row: every list of property mappings, and documents that
\* lack object_type_id
MapConfigs ==
    {Config(<<MappingData("Thing", NoIdentifier, pms, "id")>>) :
        pms \in SeqsUpTo(PropertyMappings, MaxMappings)}
    \cup {Config(<<MappingData(Missing, NoIdentifier, <<pm>>, "id")>>) :
            pm \in PropertyMappings}

\* documents for extract_primary_key: the key comes from either column
KeyConfigs ==
    {Config(<<MappingData(o, sc, <<>>, c)>>) :
        o \in {"Thing", Missing}, sc \in {NoIdentifier, [identifier |-> "things"]},
        c \in Columns}

\* the payloads a message of the topic may carry
IdName == <<"i", "d">>
ValName == <<"v", "a", "l">>
GoodPayload ==
    BytesV(TRUE, <<TP("{"), TStr(IdName), TP(":"), TStr(Str1), TP(","),
                   TStr(ValName), TP(":"), TStr(Str10), TP("}")>>)
\* well-formed, but to_int raises OverflowError on its val
InfPayload ==
    BytesV(TRUE, <<TP("{"), TStr(IdName), TP(":"), TNum(FALSE, <<"2">>), TP(","),
                   TStr(ValName), TP(":"), TLit("Infinity"), TP("}")>>)
\* cut short: not JSON
MalformedPayload == BytesV(TRUE, <<TP("{"), TStr(IdName), TP(":")>>)
\* JSON, but not an object
ArrayPayload == BytesV(TRUE, <<TP("["), TP("]")>>)
\* bytes that are not UTF-8
BadBytesPayload == BytesV(FALSE, <<>>)
Payloads == {GoodPayload, InfPayload, MalformedPayload, ArrayPayload, BadBytesPayload}

\* what one consumer.poll(timeout=1.0) may give: None after the timeout, an
\* error event (end of partition, or a fatal error), a message, or
\* an exception raised by the call (the consumer is dead) or arriving in it
\* (KeyboardInterrupt)
PollOutcome(kind, value) == [kind |-> kind, value |-> value]
PollOutcomes ==
    {PollOutcome(k, NoneV) : k \in {"timeout", "eof", "fatal", "raise", "interrupt"}}
        \cup {PollOutcome("message", v) : v \in Payloads}

\* the entries of a mapping document with several mappings
LoadEntries ==
    {MappingData(o, sc, <<>>, c) :
        o \in {"Thing", "Other", Missing, IllTyped},
        sc \in {NoIdentifier, [identifier |-> "things"], [identifier |-> "Thing"]},
        c \in {"id"}}
LoadConfigs ==
    {Config(es) : es \in SeqsUpTo(LoadEntries, MaxEntries)} \cup {[k \in {} |-> <<>>]}
\* the identifiers get_mapping is asked for
LookupKeys == {"things", "Thing", "Other", "nothing"}

\* ------------------------------------------------------------------------
\* State
\* ------------------------------------------------------------------------

VARIABLES
    \* one ingest_from_source call and its arguments
    adapter,        \* "csv" or "sql": the class of source_adapter
    source,         \* the rows the file or table holds
    mapping,        \* the SchemaMapping argument
    batch_size,
    limit,          \* None or an int
    has_sink,       \* whether sink_callback is set
    pc,             \* "start", "loop", "finally", "done" ("off": no run)
    pulled,         \* rows the adapter has taken from its reader or cursor
    count,          \* rows read_rows has yielded
    batch,
    total_ingested,
    row_count,
    batches,        \* the size of each batch handed to _process_batch
    sunk,           \* the sink calls made, in order, with their outcome
    calls,          \* the calls made on the adapter and the sink, in order
    returned,       \* the value returned (None while there is none)
    raised,         \* the exception that left the call ("none": none)
    \* one SchemaMapper and one call on it
    mapping_config, \* the document given to SchemaMapper(...)
    mapper,         \* [state, mappings]
    call,           \* [fn, mapping, row, exc, properties, key]: a call and its result
    lookup,         \* [k, found, mapping]: a get_mapping call and its result
    \* one stream_from_kafka call of a StreamingPhonograph
    kafka_available, \* KAFKA_AVAILABLE
    spc,            \* "start", "create", "subscribe", "loop", "poll", "finally",
                    \* "done" ("off": no call)
    running,        \* self.running
    consumer,       \* "none", "open", "closed"
    polled,         \* what each consumer.poll gave, in order
    stop_seen,      \* stop_streaming() was called while the loop was active
    stop_mark,      \* [pos, polls]: where the call stood at the first marked stop_streaming()
                    \* (polls: the messages polled by then, for a stop during a message)
    ended_by,       \* why the loop was left: "stop", "interrupt", "error" ("none": not left)
    \* one ingest_from_source_async call
    async_call,     \* [state, args, result, exc]
    \* two ingest_from_source calls in progress on one Phonograph
    runs            \* for each call, its adapter, its arguments and its locals

runVars == <<adapter, source, mapping, batch_size, limit, has_sink, pc, pulled, count,
             batch, total_ingested, row_count, batches, sunk, calls, returned, raised>>
mapVars == <<mapping_config, mapper, call>>
streamVars ==
    <<kafka_available, spc, running, consumer, polled, stop_seen, stop_mark, ended_by>>
extVars == <<lookup, streamVars, async_call, runs>>
vars == <<runVars, mapVars, extVars>>

NoCall == [fn |-> "none", mapping |-> Missing, row |-> EmptyDict, exc |-> "none",
           properties |-> EmptyDict, key |-> NoneV]
NoMapper == [state |-> "off", mappings |-> [k \in {} |-> Missing]]

MapIdle ==
    /\ mapping_config = [k \in {} |-> <<>>]
    /\ mapper = NoMapper
    /\ call = NoCall

NoLookup == [k |-> "", found |-> FALSE, mapping |-> NoneV]
NoStop == [pos |-> "none", polls |-> 0]
NoAsync == [state |-> "off", args |-> <<>>, result |-> NoneV, exc |-> "none"]
NoRuns == <<>>

StreamIdle ==
    /\ kafka_available = FALSE
    /\ spc = "off"
    /\ running = FALSE
    /\ consumer = "none"
    /\ polled = <<>>
    /\ stop_seen = FALSE
    /\ stop_mark = NoStop
    /\ ended_by = "none"

ExtIdle ==
    /\ lookup = NoLookup
    /\ StreamIdle
    /\ async_call = NoAsync
    /\ runs = NoRuns

\* ------------------------------------------------------------------------
\* Phonograph.ingest_from_source, step by step
\* ------------------------------------------------------------------------

Init ==
    /\ adapter \in {"csv", "sql"}
    /\ source \in Sources(adapter)
    /\ mapping \in RunMappings
    /\ batch_size \in 1..MaxBatch
    /\ limit \in Limits
    /\ has_sink \in BOOLEAN
    /\ pc = "start"
    /\ pulled = 0
    /\ count = 0
    /\ batch = <<>>
    /\ total_ingested = 0
    /\ row_count = 0
    /\ batches = <<>>
    /\ sunk = <<>>
    /\ calls = <<>>
    /\ returned = NoneV
    /\ raised = "none"
    /\ MapIdle
    /\ ExtIdle

\* source_adapter.connect(), then lines 66-68; a failure (file not found,
\* database unreachable) leaves the try block
Connect ==
    /\ pc = "start"
    /\ calls' = Append(calls, "connect")
    /\ \E ok \in BOOLEAN :
          IF ok THEN pc' = "loop" /\ raised' = raised /\ returned' = returned
          ELSE /\ pc' = OnException
               /\ raised' = "ConnectError"
               /\ returned' = ResultOnError(total_ingested)
    /\ UNCHANGED <<adapter, source, mapping, batch_size, limit, has_sink, pulled, count,
                   batch, total_ingested, row_count, batches, sunk>>
    /\ UNCHANGED mapVars
    /\ UNCHANGED extVars

\* One iteration of the for loop whose next() yields a row: lines 70-85.
NextRow ==
    /\ pc = "loop"
    /\ LET n == read_next(adapter, source, limit, pulled, count)
       IN  /\ n.kind = "row"
           /\ pulled' = n.pulled
           /\ count' = count + 1
           /\ LET source_row == source[n.pulled]
                  m == map_row(mapping, source_row)
                  primary_key == extract_primary_key(mapping, source_row)
                  b == Append(batch, <<mapping.object_type_id, primary_key, m.properties>>)
              IN  IF m.exc # "none"
                  THEN /\ pc' = OnException
                       /\ raised' = m.exc
                       /\ returned' = ResultOnError(total_ingested)
                       /\ calls' = Append(calls, "read")
                       /\ UNCHANGED <<batch, total_ingested, row_count, batches, sunk>>
                  ELSE IF BatchFull(b, batch_size)
                  THEN \E outcomes \in [1..Len(b) -> BOOLEAN] :
                          LET made == process_batch(b, outcomes, has_sink, Len(batches) + 1)
                          IN  /\ sunk' = sunk \o made
                              /\ calls' = Append(calls, "read") \o [i \in 1..Len(made) |-> "sink"]
                              /\ batches' = Append(batches, Len(b))
                              /\ total_ingested' = total_ingested + Len(b)
                              /\ batch' = <<>>
                              /\ row_count' = row_count + 1
                              /\ UNCHANGED <<pc, raised, returned>>
                  ELSE /\ batch' = b
                       /\ row_count' = row_count + 1
                       /\ calls' = Append(calls, "read")
                       /\ UNCHANGED <<pc, raised, returned, total_ingested, batches, sunk>>
    /\ UNCHANGED <<adapter, source, mapping, batch_size, limit, has_sink>>
    /\ UNCHANGED mapVars
    /\ UNCHANGED extVars

\* next() raises: a malformed line, a failed query, a lost connection
ReadFails ==
    /\ pc = "loop"
    /\ pc' = OnException
    /\ raised' = "ReadError"
    /\ returned' = ResultOnError(total_ingested)
    /\ calls' = Append(calls, "read_error")
    /\ UNCHANGED <<adapter, source, mapping, batch_size, limit, has_sink, pulled, count,
                   batch, total_ingested, row_count, batches, sunk>>
    /\ UNCHANGED mapVars
    /\ UNCHANGED extVars

\* next() ends the iteration: lines 87-93, the remaining batch and the return
EndOfRows ==
    /\ pc = "loop"
    /\ LET n == read_next(adapter, source, limit, pulled, count)
       IN  /\ n.kind = "stop"
           /\ pulled' = n.pulled
    /\ IF HasRemaining(batch)
       THEN \E outcomes \in [1..Len(batch) -> BOOLEAN] :
               LET made == process_batch(batch, outcomes, has_sink, Len(batches) + 1)
               IN  /\ sunk' = sunk \o made
                   /\ calls' = calls \o [i \in 1..Len(made) |-> "sink"]
                   /\ batches' = Append(batches, Len(batch))
                   /\ total_ingested' = total_ingested + Len(batch)
       ELSE UNCHANGED <<sunk, calls, batches, total_ingested>>
    /\ returned' = IntV(total_ingested')
    /\ pc' = "finally"
    /\ UNCHANGED <<adapter, source, mapping, batch_size, limit, has_sink, count, batch,
                   row_count, raised>>
    /\ UNCHANGED mapVars
    /\ UNCHANGED extVars

\* the finally clause: source_adapter.disconnect(), then the return or the raise
Disconnect ==
    /\ pc = "finally"
    /\ calls' = Append(calls, "disconnect")
    /\ pc' = "done"
    /\ UNCHANGED <<adapter, source, mapping, batch_size, limit, has_sink, pulled, count,
                   batch, total_ingested, row_count, batches, sunk, returned, raised>>
    /\ UNCHANGED mapVars
    /\ UNCHANGED extVars

Next == Connect \/ ReadFails \/ EndOfRows \/ NextRow \/ Disconnect

Spec == Init /\ [][Next]_vars

\* ------------------------------------------------------------------------
\* Properties of ingest_from_source
\* ------------------------------------------------------------------------

Done == pc = "done"
Returned == Done /\ raised = "none"
Ceil(m, n) == (m + n - 1) \div n
ExpectedBatches(m, n) == [i \in 1..Ceil(m, n) |-> IF i * n <= m THEN n ELSE m % n]
SinkNeverFailed == \A i \in 1..Len(sunk) : sunk[i].ok
SinkCallsOfBatch(j) == {i \in 1..Len(sunk) : sunk[i].batch_no = j}
Indices(op) == {i \in 1..Len(calls) : calls[i] = op}
\* the object ingest_from_source builds from a row
ObjectOf(row) ==
    <<mapping.object_type_id, extract_primary_key(mapping, row),
      map_row(mapping, row).properties>>

\* C1: a run without limit over a source of M rows that returns, its sink never
\* failing, has handed ceil(M/N) batches to _process_batch, each of N objects
\* but the last, which holds M mod N (N when N divides M), and has returned M;
\* over the empty source it hands over nothing and returns 0.
C1_BatchesAndCount ==
    (Returned /\ limit = NoneV /\ SinkNeverFailed) =>
        /\ batches = ExpectedBatches(Len(source), batch_size)
        /\ returned = IntV(Len(source))
        /\ has_sink => Len(sunk) = Len(source)
        /\ Len(source) = 0 => batches = <<>> /\ sunk = <<>> /\ returned = IntV(0)

C1_Witness ==
    /\ Returned /\ limit = NoneV /\ SinkNeverFailed /\ has_sink
    /\ Len(source) = 3 /\ batch_size = 2 /\ batches = <<2, 1>>

\* C2: whatever the sink does, every object of every batch handed to
\* _process_batch gets its sink call, the ones after a failed call and those of
\* later batches included, and a run that returns returns the number of rows
\* read.
C2_SinkFailureIsolated ==
    /\ has_sink => \A j \in 1..Len(batches) : Cardinality(SinkCallsOfBatch(j)) = batches[j]
    /\ Returned => returned = IntV(count) /\ (has_sink => Len(sunk) = count)

C2_Witness ==
    /\ Returned /\ Len(sunk) = 3 /\ returned = IntV(3)
    /\ ~sunk[1].ok /\ sunk[2].batch_no = 1 /\ sunk[3].batch_no = 2

\* C3 (as claimed): with limit = L, read_rows never yields more than L rows.
C3_LimitBoundsRowsRead == limit # NoneV => count <= limit.v

\* C4: connect is the first call made and precedes every read; once the call
\* has returned or raised, disconnect has been called exactly once, as the
\* last call; no row is read after it.
C4_ScopedConnection ==
    /\ calls # <<>> => calls[1] = "connect"
    /\ Cardinality(Indices("connect")) <= 1
    /\ Cardinality(Indices("disconnect")) <= 1
    /\ \A i \in Indices("disconnect") : i = Len(calls)
    /\ Done => Cardinality(Indices("disconnect")) = 1

C4_Witness ==
    /\ Done /\ raised = "OverflowError" /\ count = 2
    /\ calls = <<"connect", "read", "read", "disconnect">>

\* C5: when connect or read_rows raises after r rows were read, the exception
\* reaches the caller after disconnect, and the batches handed over are the
\* floor(r/N) full ones: the sink has been called for the first
\* N * floor(r/N) rows, in order, and for nothing else.
C5_FailureKeepsCompletedBatches ==
    (Done /\ raised \in {"ConnectError", "ReadError"}) =>
        LET r == count
            k == batch_size * (r \div batch_size)
        IN  /\ calls[Len(calls)] = "disconnect"
            /\ batches = [i \in 1..(r \div batch_size) |-> batch_size]
            /\ has_sink => /\ Len(sunk) = k
                           /\ \A i \in 1..k : sunk[i].obj = ObjectOf(source[i])

C5_Witness ==
    /\ Done /\ raised = "ReadError" /\ has_sink
    /\ count = 3 /\ batch_size = 2 /\ Len(sunk) = 2 /\ Len(batch) = 1

\* C6 (as claimed): a run that fails after objects were ingested gives its
\* caller the count ingested before the failure, with the error.
C6_ErrorCarriesCount ==
    (Done /\ raised # "none" /\ total_ingested > 0) => returned = IntV(total_ingested)

\* C6 (amended): a run that fails gives its caller the error alone: no count
\* is returned; what was ingested before shows only in the sink calls made.
C6_ErrorWithoutCount ==
    (Done /\ raised # "none") =>
        /\ returned = NoneV
        /\ has_sink => Len(sunk) = total_ingested

C6_Witness == Done /\ raised = "ReadError" /\ total_ingested = 2 /\ has_sink

\* the row whose mapping raised, when the run ended that way
MappingRaised ==
    /\ count >= 1
    /\ map_row(mapping, source[pulled]).exc = raised

\* C11: a run without sink callback makes no sink call and raises nothing for
\* the lack of one (what it raises comes from connect, from read_rows or from
\* the mapping of a row); when it returns it has handed every row read to
\* _process_batch and returns their number: M over a source of M rows read
\* without limit, the count C1 gives for a sink that always succeeds.
C11_NoSinkStillCounts ==
    ~has_sink =>
        /\ sunk = <<>>
        /\ raised # "none" => raised \in {"ConnectError", "ReadError"} \/ MappingRaised
        /\ Returned =>
              /\ returned = IntV(count)
              /\ batches = ExpectedBatches(count, batch_size)
              /\ limit = NoneV => returned = IntV(Len(source))

C11_Witness ==
    /\ Returned /\ ~has_sink /\ limit = NoneV
    /\ Len(source) = 3 /\ batch_size = 2 /\ returned = IntV(3) /\ batches = <<2, 1>>

\* ------------------------------------------------------------------------
\* SchemaMapper: construction, then one call of map_row or of
\* extract_primary_key
\* ------------------------------------------------------------------------

RunIdle ==
    /\ adapter = "csv"
    /\ source = <<>>
    /\ mapping = RunMapping(NoTransformation)
    /\ batch_size = 1
    /\ limit = NoneV
    /\ has_sink = FALSE
    /\ pc = "off"
    /\ pulled = 0
    /\ count = 0
    /\ batch = <<>>
    /\ total_ingested = 0
    /\ row_count = 0
    /\ batches = <<>>
    /\ sunk = <<>>
    /\ calls = <<>>
    /\ returned = NoneV
    /\ raised = "none"

InitMap ==
    /\ mapping_config \in MapConfigs
    /\ mapper = [state |-> "new", mappings |-> [k \in {} |-> Missing]]
    /\ call = NoCall
    /\ RunIdle
    /\ ExtIdle

InitKey ==
    /\ mapping_config \in KeyConfigs
    /\ mapper = [state |-> "new", mappings |-> [k \in {} |-> Missing]]
    /\ call = NoCall
    /\ RunIdle
    /\ ExtIdle

\* SchemaMapper(mapping_config): an exception of _load_mappings leaves no mapper
Construct ==
    /\ mapper.state = "new"
    /\ LET r == load_mappings(mapping_config)
       IN  mapper' = IF r.exc = "none"
                     THEN [state |-> "ready", mappings |-> r.mappings]
                     ELSE [state |-> "failed", mappings |-> [k \in {} |-> Missing]]
    /\ UNCHANGED <<mapping_config, call>>
    /\ UNCHANGED runVars
    /\ UNCHANGED extVars

\* map_row(get_mapping(k), row)
MapRow ==
    /\ mapper.state = "ready"
    /\ call.fn = "none"
    /\ \E k \in DOMAIN mapper.mappings, row \in Rows :
          LET m == mapper.mappings[k]
              r == map_row(m, row)
          IN  call' = [fn |-> "map_row", mapping |-> m, row |-> row, exc |-> r.exc,
                       properties |-> r.properties, key |-> NoneV]
    /\ UNCHANGED <<mapping_config, mapper>>
    /\ UNCHANGED runVars
    /\ UNCHANGED extVars

\* extract_primary_key(get_mapping(k), row)
ExtractPrimaryKey ==
    /\ mapper.state = "ready"
    /\ call.fn = "none"
    /\ \E k \in DOMAIN mapper.mappings, row \in Rows :
          LET m == mapper.mappings[k]
          IN  call' = [fn |-> "extract_primary_key", mapping |-> m, row |-> row,
                       exc |-> "none", properties |-> EmptyDict,
                       key |-> extract_primary_key(m, row)]
    /\ UNCHANGED <<mapping_config, mapper>>
    /\ UNCHANGED runVars
    /\ UNCHANGED extVars

NextMap == Construct \/ MapRow
SpecMap == InitMap /\ [][NextMap]_vars

NextKey == Construct \/ ExtractPrimaryKey
SpecKey == InitKey /\ [][NextKey]_vars

\* ------------------------------------------------------------------------
\* Properties of SchemaMapper
\* ------------------------------------------------------------------------

Mapped == call.fn = "map_row"
CallMappings == call.mapping.property_mappings
\* property mapping i finds a value that is there and not None
Feeds(i) ==
    /\ CallMappings[i].source_column \in DOMAIN call.row
    /\ call.row[CallMappings[i].source_column] # NoneV
RawValue(i) == call.row[CallMappings[i].source_column]
\* property mapping i is the last one to write its target
LastWriter(i) ==
    /\ Feeds(i)
    /\ \A j \in (i + 1)..Len(CallMappings) :
          CallMappings[j].target_property = CallMappings[i].target_property => ~Feeds(j)
\* the coercion of property mapping i fails on the value it finds
CoercionFails(i) ==
    /\ Feeds(i)
    /\ CallMappings[i].transformation \in Registry
    /\ RegistryCall(CallMappings[i].transformation, RawValue(i)).exc # "none"

\* C7: the properties map_row returns hold a target exactly when a property
\* mapping of that target finds a value that is there and not None; no
\* property is None, and a value mapped without transformation is kept as it
\* is, 0, False and the empty string included.
C7_KeyIffPresent ==
    (Mapped /\ call.exc = "none") =>
        /\ \A t \in Targets :
              t \in DOMAIN call.properties <=>
                 \E i \in 1..Len(CallMappings) :
                    CallMappings[i].target_property = t /\ Feeds(i)
        /\ \A t \in DOMAIN call.properties : call.properties[t] # NoneV
        /\ \A i \in 1..Len(CallMappings) :
              (LastWriter(i) /\ CallMappings[i].transformation = NoTransformation)
                 => call.properties[CallMappings[i].target_property] = RawValue(i)

C7_Witness ==
    /\ Mapped
    /\ CallMappings = <<PropertyMapping("id", "p", NoTransformation),
                        PropertyMapping("val", "q", NoTransformation)>>
    /\ call.row = [val |-> IntV(0)]
    /\ call.properties = [q |-> IntV(0)]

\* C8 (as claimed): when a coercion of the registry fails on a value, map_row
\* raises nothing and the target holds the raw value (unless a later mapping
\* writes the same target).
C8_CoercionFallsBack ==
    (Mapped /\ \E i \in 1..Len(CallMappings) : CoercionFails(i)) =>
        /\ call.exc = "none"
        /\ \A i \in 1..Len(CallMappings) :
              (CoercionFails(i) /\ LastWriter(i))
                 => /\ CallMappings[i].target_property \in DOMAIN call.properties
                    /\ call.properties[CallMappings[i].target_property] = RawValue(i)

\* the mapping document names a transformation that the registry lacks
UnknownNamed(entries) ==
    \E e \in 1..Len(entries) : \E i \in 1..Len(entries[e].property_mappings) :
       entries[e].property_mappings[i].transformation
          \notin Registry \cup {NoTransformation}

C10_PrimaryKey ==
    call.fn = "extract_primary_key" =>
        LET c == call.mapping.primary_key_mapping.source_column
        IN  /\ call.exc = "none"
            /\ call.key.t = "str"
            /\ c \in DOMAIN call.row => call.key.v = py_str(call.row[c])
            /\ c \notin DOMAIN call.row => call.key.v = <<>>
            /\ (c \in DOMAIN call.row /\ call.row[c] = IntV(10)) => call.key.v = Str10

C10_Witness ==
    /\ call.fn = "extract_primary_key"
    /\ call.mapping.primary_key_mapping.source_column = "val"
    /\ call.row = [id |-> StrV(Str1)]
    /\ call.key = StrV(<<>>)

\* ------------------------------------------------------------------------
\* StreamingPhonograph.stream_from_kafka, step by step, with stop_streaming
\* called from outside the loop's thread
\* ------------------------------------------------------------------------

\* the locals of ingest_from_source, of which there is no call
NoRun ==
    /\ adapter = "csv"
    /\ source = <<>>
    /\ batch_size = 1
    /\ limit = NoneV
    /\ pc = "off"
    /\ pulled = 0
    /\ count = 0
    /\ batch = <<>>
    /\ total_ingested = 0
    /\ row_count = 0
    /\ batches = <<>>
    /\ calls = <<>>
    /\ returned = NoneV

InitStream ==
    /\ kafka_available \in BOOLEAN
    /\ has_sink \in BOOLEAN
    /\ mapping \in RunMappings
    /\ spc = "start"
    /\ running = FALSE
    /\ consumer = "none"
    /\ polled = <<>>
    /\ stop_seen = FALSE
    /\ stop_mark = NoStop
    /\ ended_by = "none"
    /\ sunk = <<>>
    /\ raised = "none"
    /\ NoRun
    /\ MapIdle
    /\ lookup = NoLookup
    /\ async_call = NoAsync
    /\ runs = NoRuns

streamFrame ==
    <<adapter, source, mapping, batch_size, limit, has_sink, pc, pulled, count, batch,
      total_ingested, row_count, batches, calls, returned, mapVars, lookup, async_call,
      runs, kafka_available>>

\* lines 153-166: the capability check, then the consumer configuration
StartStream ==
    /\ spc = "start"
    /\ IF BackendMissing(kafka_available)
       THEN spc' = "done" /\ raised' = "RuntimeError"
       ELSE spc' = "create" /\ raised' = raised
    /\ UNCHANGED <<running, consumer, polled, stop_seen, stop_mark, ended_by, sunk>>
    /\ UNCHANGED streamFrame

\* line 168: Consumer(consumer_config), which a bad configuration makes raise
CreateConsumer ==
    /\ spc = "create"
    /\ \E ok \in BOOLEAN :
          IF ok THEN consumer' = "open" /\ spc' = "subscribe" /\ raised' = raised
          ELSE consumer' = consumer /\ spc' = "done" /\ raised' = "KafkaException"
    /\ UNCHANGED <<running, polled, stop_seen, stop_mark, ended_by, sunk>>
    /\ UNCHANGED streamFrame

\* lines 169-174: consumer.subscribe([topic]) outside the try block, then
\* self.running = True and the entry of the try block
Subscribe ==
    /\ spc = "subscribe"
    /\ \E ok \in BOOLEAN :
          IF ok THEN running' = TRUE /\ spc' = "loop" /\ raised' = raised
          ELSE running' = running /\ spc' = "done" /\ raised' = "KafkaException"
    /\ UNCHANGED <<consumer, polled, stop_seen, stop_mark, ended_by, sunk>>
    /\ UNCHANGED streamFrame

\* "while self.running"
LoopForever(r) == TRUE
LoopContinues(r) == r

\* line 175: the test at the top of an iteration
WhileTest ==
    /\ spc = "loop"
    /\ IF LoopContinues(running)
       THEN /\ spc' = "poll"
            /\ ended_by' = ended_by
       ELSE /\ spc' = "finally"
            /\ ended_by' = "stop"
    /\ UNCHANGED <<running, consumer, polled, stop_seen, stop_mark, sunk, raised>>
    /\ UNCHANGED streamFrame

\* what a poll may give once `n` outcomes were logged: the topic delivers
\* MaxPolls events at most, and every later poll times out
OutcomesAfter(n) == IF n < MaxPolls THEN PollOutcomes ELSE {PollOutcome("timeout", NoneV)}

\* lines 177-189: one poll; a timeout or an error event ends the iteration, an
\* exception leaves the loop, a message goes on to the inner try block
Poll ==
    /\ spc = "poll"
    /\ \E o \in OutcomesAfter(Len(polled)) :
          /\ polled' = IF Len(polled) < MaxPolls THEN Append(polled, o) ELSE polled
          /\ IF o.kind = "raise"
             THEN /\ spc' = "finally"
                  /\ raised' = "KafkaException"
                  /\ ended_by' = "error"
             ELSE IF o.kind = "interrupt"
             THEN /\ spc' = "finally"
                  /\ ended_by' = "interrupt"
                  /\ raised' = raised
             ELSE IF o.kind = "timeout" \/ IsErrorEvent(o.kind)
             THEN /\ spc' = "loop"
                  /\ UNCHANGED <<raised, ended_by>>
             ELSE /\ spc' = "process"
                  /\ UNCHANGED <<raised, ended_by>>
    /\ UNCHANGED <<running, consumer, stop_seen, stop_mark, sunk>>
    /\ UNCHANGED streamFrame

\* the inner try block reads no flag: a stop made meanwhile changes nothing in it
AbortWhenStopped(r) == ~r
AbortOnStop(r) == FALSE

\* what the inner try block leaves behind for message o: the sink calls made
\* and, if an exception of it left the loop, that exception
message_step(o, flag, sink_ok) ==
    LET r == process_message(mapping, o.value, has_sink, sink_ok)
    IN  IF AbortOnStop(flag) THEN [sink |-> <<>>, exc |-> "none"]
        ELSE IF r.exc # "none" /\ MessageErrorEnds(r.exc) THEN [sink |-> r.sink, exc |-> r.exc]
        ELSE [sink |-> r.sink, exc |-> "none"]

\* lines 191-212: the inner try block on the message polled last
ProcessMessage ==
    /\ spc = "process"
    /\ \E sink_ok \in BOOLEAN :
          \E step \in {message_step(polled[Len(polled)], running, sink_ok)} :
              /\ sunk' = sunk \o step.sink
              /\ raised' = step.exc
              /\ spc' = IF step.exc = "none" THEN "loop" ELSE "finally"
              /\ ended_by' = IF step.exc = "none" THEN ended_by ELSE "error"
    /\ UNCHANGED <<running, consumer, polled, stop_seen, stop_mark>>
    /\ UNCHANGED streamFrame

\* lines 214-222: the except clauses (KeyboardInterrupt is swallowed, another
\* exception re-raised) and the finally clause
CloseConsumer ==
    /\ spc = "finally"
    /\ running' = RunningAfterFinally(running)
    /\ consumer' = "closed"
    /\ spc' = "done"
    /\ UNCHANGED <<polled, stop_seen, stop_mark, ended_by, sunk, raised>>
    /\ UNCHANGED streamFrame

\* the positions of the call at which a stop_streaming() is marked: before the
\* loop, at the top of an iteration and during a message
StopMarked == {"create", "subscribe", "loop", "process"}

\* stop_streaming(), called by another thread or by the sink callback
StopStreaming ==
    /\ spc # "off"
    /\ running' = FALSE
    /\ stop_seen' = (stop_seen \/ (spc \in {"loop", "poll", "process"} /\ running))
    /\ stop_mark' = IF stop_mark = NoStop /\ spc \in StopMarked
                    THEN [pos |-> spc,
                          polls |-> IF spc = "process" THEN Len(polled) ELSE 0]
                    ELSE stop_mark
    /\ UNCHANGED <<spc, consumer, polled, ended_by, sunk, raised>>
    /\ UNCHANGED streamFrame

NextStream ==
    StartStream \/ CreateConsumer \/ Subscribe \/ WhileTest \/ Poll \/ ProcessMessage
        \/ CloseConsumer \/ StopStreaming

SpecStream == InitStream /\ [][NextStream]_vars

\* the poll returns within its timeout, the sink returns or raises, and the
\* loop's thread keeps running.
\* ProcessMessage is enabled exactly where spc = "process" and each of its
\* steps leaves that position: weak fairness of it is this formula
MessageHandled == []<>(spc # "process")

SpecStreamLive ==
    /\ InitStream /\ [][NextStream]_vars
    /\ WF_vars(StartStream) /\ WF_vars(CreateConsumer) /\ WF_vars(Subscribe)
    /\ WF_vars(WhileTest) /\ WF_vars(Poll) /\ WF_vars(CloseConsumer)
    /\ MessageHandled

\* ------------------------------------------------------------------------
\* Properties of stream_from_kafka
\* ------------------------------------------------------------------------

StreamDone == spc = "done"
\* message o is valid JSON holding an object, and the mapping raises nothing on it
WellFormed(o) == o.kind = "message" /\ o.value \in {GoodPayload, InfPayload}
MappingFails(o) == o.value = InfPayload /\ mapping = RunMapping("to_int")
Dispatchable(o) == WellFormed(o) /\ ~MappingFails(o)
\* the object that the mapping of the call makes of a dispatchable message
StreamObject(o) ==
    IF o.value = GoodPayload
    THEN <<"Thing", StrV(Str1),
           [p |-> IF mapping = RunMapping("to_int") THEN IntV(10) ELSE StrV(Str10)]>>
    ELSE <<"Thing", StrV(<<"2">>), [p |-> InfV(FALSE)]>>
\* the outcomes the loop is through with: all but a message still in progress
Handled == IF spc = "process" THEN SubSeq(polled, 1, Len(polled) - 1) ELSE polled
RECURSIVE ExpectedDispatch(_)
ExpectedDispatch(log) ==
    IF log = <<>> THEN <<>>
    ELSE ExpectedDispatch(SubSeq(log, 1, Len(log) - 1))
            \o (IF Dispatchable(log[Len(log)]) THEN <<StreamObject(log[Len(log)])>>
                ELSE <<>>)

\* C12: the sink is called once for each message that is valid JSON and maps,
\* in the order polled and whatever earlier calls did, and for no other
\* message; no exception of the handling of a message leaves the call: the
\* loop is left only on the running flag, on an exception of poll itself or on
\* an interrupt.
C12_MessageErrorsIsolated ==
    /\ has_sink => [i \in 1..Len(sunk) |-> sunk[i].obj] = ExpectedDispatch(Handled)
    /\ ~has_sink => sunk = <<>>
    /\ raised \in {"none", "RuntimeError", "KafkaException"}
    /\ ended_by \in {"error", "interrupt"} =>
          polled[Len(polled)].kind = (IF ended_by = "error" THEN "raise" ELSE "interrupt")
    /\ (spc \in {"finally", "done"} /\ polled # <<>> /\ polled[Len(polled)].kind = "message")
          => ended_by = "stop"

C12_Witness ==
    /\ has_sink /\ spc = "poll" /\ running
    /\ polled = <<PollOutcome("message", MalformedPayload),
                  PollOutcome("message", GoodPayload)>>
    /\ Len(sunk) = 1 /\ ~sunk[1].ok

\* C13: once stop_streaming() has been called while the loop was active, or an
\* interrupt has arrived in it, the call ends with the consumer closed and the
\* running flag down; it returns, and raises only when the poll that was in
\* progress at the stop raised.
C13_StopLeadsToReturn ==
    /\ (stop_seen \/ ended_by = "interrupt")
          ~> (StreamDone /\ consumer = "closed" /\ ~running)
    /\ []((StreamDone /\ ended_by \in {"stop", "interrupt"}) => raised = "none")

C13_Witness ==
    /\ StreamDone /\ stop_seen /\ ended_by = "stop" /\ consumer = "closed"
    /\ raised = "none" /\ Len(polled) = 2

\* C14 (as claimed): after a fatal transport error was reported, by an error
\* event or by an exception of poll, the loop is left, and the call ends by
\* raising with the consumer closed.
C14_FatalEndsLoop ==
    (\E i \in 1..Len(polled) : polled[i].kind \in {"fatal", "raise"}) =>
        /\ spc \in {"finally", "done"}
        /\ ended_by = "error"
        /\ StreamDone => raised # "none" /\ consumer = "closed"

\* C15 (as claimed): a call that has ended has closed the consumer it created.
C15_CreatedConsumerClosed == (StreamDone /\ consumer # "none") => consumer = "closed"

\* C16: without the client library the call raises RuntimeError at once: no
\* consumer is created, nothing is polled, the running flag stays down and the
\* sink is not called.
C16_BackendUnavailableFails ==
    ~kafka_available =>
        /\ spc \in {"start", "done"}
        /\ consumer = "none" /\ polled = <<>> /\ ~running /\ sunk = <<>>
        /\ StreamDone => raised = "RuntimeError"

C16_Witness == ~kafka_available /\ StreamDone /\ raised = "RuntimeError" /\ has_sink

\* C20: the running flag is down before the loop and once the call has ended,
\* and up only between the entry of the loop and the finally clause, with the
\* consumer open; it goes up only when the loop is entered, and an iteration
\* polls only if its test found the flag up.
C20_RunningStateMachine ==
    /\ [](/\ spc \in {"start", "create", "subscribe", "done"} => ~running
          /\ running => consumer = "open")
    /\ [][/\ (running' /\ ~running) => (spc = "subscribe" /\ spc' = "loop")
          /\ (spc' = "poll" /\ spc = "loop") => running
          /\ polled' # polled => spc = "poll"]_vars

C20_Witness ==
    /\ StreamDone /\ ended_by = "error" /\ raised = "KafkaException" /\ ~running
    /\ consumer = "closed" /\ Len(polled) = 2

\* C21: a first stop_streaming() made while a message is being processed
\* leaves that message its mapping and its sink call; nothing is polled after
\* it: the next test of the flag leaves the loop and the call returns.  A stop
\* made at the top of an iteration lets no poll start.
C21_CooperativeStop ==
    /\ stop_mark.pos = "process" =>
          /\ Len(polled) = stop_mark.polls
          /\ spc \in {"process", "loop", "finally", "done"}
          /\ (spc # "process" /\ has_sink) =>
                [i \in 1..Len(sunk) |-> sunk[i].obj] = ExpectedDispatch(polled)
          /\ spc \in {"finally", "done"} => ended_by = "stop" /\ raised = "none"
    /\ stop_mark.pos = "loop" => spc \in {"loop", "finally", "done"}

C21_Witness ==
    /\ stop_mark = [pos |-> "process", polls |-> 1]
    /\ polled = <<PollOutcome("message", GoodPayload)>>
    /\ has_sink /\ Len(sunk) = 1
    /\ StreamDone /\ ended_by = "stop" /\ consumer = "closed"

\* C28 (as claimed): a stop_streaming() made at any time after the call began,
\* before the loop has raised the running flag included, leads to the call
\* ending.
C28_StopNeverLost == (stop_mark # NoStop) ~> StreamDone

\* ------------------------------------------------------------------------
\* SchemaMapper: a document of several mappings, then one get_mapping
\* ------------------------------------------------------------------------

InitLoad ==
    /\ mapping_config \in LoadConfigs
    /\ mapper = [state |-> "new", mappings |-> [k \in {} |-> Missing]]
    /\ call = NoCall
    /\ RunIdle
    /\ ExtIdle

\* get_mapping(k) on the mapper that was constructed
GetMapping ==
    /\ mapper.state = "ready"
    /\ lookup = NoLookup
    /\ \E k \in LookupKeys : lookup' = get_mapping(mapper.mappings, k)
    /\ UNCHANGED <<mapVars, streamVars, async_call, runs>>
    /\ UNCHANGED runVars

NextLoad == Construct \/ GetMapping
SpecLoad == InitLoad /\ [][NextLoad]_vars

ConfigEntries == DictGet(mapping_config, "mappings", <<>>)
\* an entry that lacks a required field or holds one of the wrong type
Malformed(e) == e.object_type_id \in {Missing, IllTyped}
\* the lookup key of an entry
EntryKey(e) ==
    IF "identifier" \in DOMAIN e.source_config THEN e.source_config.identifier
    ELSE e.object_type_id

\* C17: when an entry of the document is malformed, wherever it stands, the
\* construction raises and leaves no mapper: none of the entries before the
\* malformed one can be looked up.
C17_NoPartialLoad ==
    (mapper.state # "new" /\ \E i \in 1..Len(ConfigEntries) : Malformed(ConfigEntries[i]))
        => /\ mapper.state = "failed"
           /\ DOMAIN mapper.mappings = {}
           /\ lookup = NoLookup

C17_Witness ==
    /\ mapper.state = "failed"
    /\ Len(ConfigEntries) = 3
    /\ ~Malformed(ConfigEntries[1]) /\ ~Malformed(ConfigEntries[2])
    /\ ConfigEntries[3].object_type_id = IllTyped

\* C18: get_mapping(k) returns the last entry of the document whose key is k,
\* the key being source_config.identifier or, without one, object_type_id; it
\* returns None when no entry has key k.
C18_LookupByKey ==
    lookup # NoLookup =>
        LET hits == {i \in 1..Len(ConfigEntries) : EntryKey(ConfigEntries[i]) = lookup.k}
        IN  IF hits = {} THEN ~lookup.found
            ELSE /\ lookup.found
                 /\ lookup.mapping = ConfigEntries[CHOOSE i \in hits : \A j \in hits : j <= i]

C18_Witness ==
    /\ lookup.k = "Thing" /\ lookup.found
    /\ Len(ConfigEntries) = 3
    /\ ConfigEntries[1] = MappingData("Thing", NoIdentifier, <<>>, "id")
    /\ ConfigEntries[2] = MappingData("Other", [identifier |-> "Thing"], <<>>, "id")
    /\ ConfigEntries[3] = MappingData("Thing", [identifier |-> "things"], <<>>, "id")
    /\ lookup.mapping = ConfigEntries[2]

\* ------------------------------------------------------------------------
\* Phonograph.ingest_from_source_async: the synchronous run on an executor
\* thread, awaited
\* ------------------------------------------------------------------------

\* the arguments run_in_executor hands to ingest_from_source (lines 126-130)
executor_args_no_limit(m, size, lim) == [mapping |-> m, batch_size |-> size, limit |-> NoneV]
executor_args(m, size, lim) == [mapping |-> m, batch_size |-> size, limit |-> lim]

InitAsync ==
    /\ adapter \in {"csv", "sql"}
    /\ source \in Sources(adapter)
    /\ has_sink \in BOOLEAN
    /\ \E m \in RunMappings, size \in 1..MaxBatch, lim \in Limits :
          async_call = [state |-> "new",
                        args |-> [mapping |-> m, batch_size |-> size, limit |-> lim],
                        result |-> NoneV, exc |-> "none"]
    /\ mapping = RunMapping(NoTransformation)
    /\ batch_size = 1
    /\ limit = NoneV
    /\ pc = "off"
    /\ pulled = 0
    /\ count = 0
    /\ batch = <<>>
    /\ total_ingested = 0
    /\ row_count = 0
    /\ batches = <<>>
    /\ sunk = <<>>
    /\ calls = <<>>
    /\ returned = NoneV
    /\ raised = "none"
    /\ MapIdle
    /\ lookup = NoLookup
    /\ StreamIdle
    /\ runs = NoRuns

\* lines 123-131: loop.run_in_executor(None, self.ingest_from_source, ...);
\* the worker thread enters ingest_from_source with the arguments handed over
Submit ==
    /\ async_call.state = "new"
    /\ LET a == executor_args(async_call.args.mapping, async_call.args.batch_size,
                              async_call.args.limit)
       IN  /\ mapping' = a.mapping
           /\ batch_size' = a.batch_size
           /\ limit' = a.limit
    /\ pc' = "start"
    /\ async_call' = [async_call EXCEPT !.state = "awaiting"]
    /\ UNCHANGED <<adapter, source, has_sink, pulled, count, batch, total_ingested,
                   row_count, batches, sunk, calls, returned, raised>>
    /\ UNCHANGED <<mapVars, lookup, streamVars, runs>>

\* the await: the future of the executor gives the value returned by
\* ingest_from_source, or raises the exception that left it
AwaitDone ==
    /\ async_call.state = "awaiting"
    /\ pc = "done"
    /\ async_call' = [async_call EXCEPT !.state = "done", !.result = returned,
                                        !.exc = raised]
    /\ UNCHANGED runVars
    /\ UNCHANGED <<mapVars, lookup, streamVars, runs>>

NextAsync == Submit \/ Connect \/ NextRow \/ ReadFails \/ EndOfRows \/ Disconnect \/ AwaitDone
SpecAsync == InitAsync /\ [][NextAsync]_vars

\* the number of rows a synchronous run reads when nothing fails
RowsToRead(rows, lim) == IF Truthy(lim) THEN Min(lim.v, Len(rows)) ELSE Len(rows)

\* C19: the awaited call touches the adapter and the sink only through one
\* ingest_from_source run, made with the mapping, batch_size and limit it was
\* given; what the await gives is what that run returned or raised: the count
\* of the synchronous run (every row the limit lets through), or its error,
\* after connect first and disconnect last.
C19_AsyncSameAsSync ==
    /\ async_call.state = "new" => pc = "off" /\ calls = <<>> /\ sunk = <<>>
    /\ async_call.state \in {"awaiting", "done"} =>
          /\ mapping = async_call.args.mapping
          /\ batch_size = async_call.args.batch_size
          /\ limit = async_call.args.limit
    /\ async_call.state = "done" =>
          /\ pc = "done"
          /\ async_call.result = returned /\ async_call.exc = raised
          /\ calls[1] = "connect" /\ calls[Len(calls)] = "disconnect"
          /\ Cardinality(Indices("read")) = count
          /\ Cardinality(Indices("sink")) = Len(sunk)
          /\ async_call.exc = "none" =>
                /\ async_call.result =
                      IntV(RowsToRead(source, async_call.args.limit))
                /\ batches = ExpectedBatches(count, async_call.args.batch_size)
                /\ has_sink => [i \in 1..Len(sunk) |-> sunk[i].obj]
                                  = [i \in 1..count |-> ObjectOf(source[i])]
          /\ async_call.exc # "none" => async_call.result = NoneV

C19_Witness ==
    /\ async_call.state = "done" /\ async_call.exc = "none"
    /\ async_call.args.limit = IntV(2) /\ async_call.args.batch_size = 2
    /\ Len(source) = 3 /\ async_call.result = IntV(2) /\ has_sink

\* ------------------------------------------------------------------------
\* Properties of ingest_from_source: the sink calls, the batch, the counters
\* ------------------------------------------------------------------------

\* the objects of the sink calls made so far, in the order of the calls
SunkObjects == [i \in 1..Len(sunk) |-> sunk[i].obj]

\* C22: the i-th sink call of a run is for the object of the i-th row read and
\* there is never more than one call per row read, whether calls failed or
\* not: a failed call is not made again; and the calls made stay made: every
\* step only adds calls after the ones there are.
C22_SinkAtMostOncePerObject ==
    /\ [](/\ Len(sunk) <= count
          /\ \A i \in 1..Len(sunk) : sunk[i].obj = ObjectOf(source[i]))
    /\ [][Len(sunk') >= Len(sunk) /\ SubSeq(sunk', 1, Len(sunk)) = sunk]_vars

C22_Witness ==
    /\ Returned /\ has_sink /\ count = 3 /\ Len(sunk) = 3 /\ batch_size = 3
    /\ sunk[1].ok /\ ~sunk[2].ok /\ sunk[3].ok

\* C23 (as claimed): the batch never holds more than batch_size objects and
\* is empty right after every dispatch.
C23_BatchEmptyAfterEveryDispatch ==
    [][Len(batch') <= batch_size /\ (batches' # batches => batch' = <<>>)]_vars

\* C23 (amended): the batch never holds more than batch_size objects, and
\* fewer between two iterations; a dispatch made in the loop is of exactly
\* batch_size objects and leaves the batch empty; the dispatch made after the
\* loop is of what remains, fewer than batch_size objects, which the local
\* variable keeps until the call ends.
C23_BatchBoundedAndFlushed ==
    /\ [](/\ Len(batch) <= batch_size
          /\ pc = "loop" => Len(batch) < batch_size)
    /\ [][batches' # batches =>
            /\ batches' = Append(batches, batches'[Len(batches')])
            /\ IF pc' = "loop"
               THEN batches'[Len(batches')] = batch_size /\ batch' = <<>>
               ELSE /\ pc' = "finally" /\ batch' = batch /\ batch # <<>>
                    /\ batches'[Len(batches')] = Len(batch)
                    /\ Len(batch) < batch_size]_vars

C23_Witness ==
    /\ pc = "finally" /\ raised = "none" /\ count = 3 /\ batch_size = 2
    /\ batches = <<2, 1>> /\ Len(batch) = 1

\* C26: between two iterations total_ingested + len(batch) is row_count, the
\* number of rows read; total_ingested never decreases; a run that returns
\* returns total_ingested, which is then row_count.
C26_Accounting ==
    /\ [](/\ pc = "loop" => total_ingested + Len(batch) = row_count /\ row_count = count
          /\ Returned => returned = IntV(total_ingested) /\ total_ingested = row_count)
    /\ [][total_ingested' >= total_ingested]_vars

C26_Witness ==
    /\ Returned /\ row_count = 3 /\ batch_size = 2 /\ total_ingested = 3
    /\ limit = IntV(3) /\ ~has_sink

\* C27: the sink calls follow the rows: the i-th call is for the i-th row
\* read and belongs to batch ceil(i / batch_size), so that every call of a
\* batch comes after all the calls of the batches before it, and a batch that
\* was handed over has had a call for each of its objects.
C27_SinkOrderIsRowOrder ==
    has_sink =>
        /\ SunkObjects = [i \in 1..Len(sunk) |-> ObjectOf(source[i])]
        /\ \A i \in 1..Len(sunk) : sunk[i].batch_no = Ceil(i, batch_size)
        /\ \A i, j \in 1..Len(sunk) : i < j => sunk[i].batch_no <= sunk[j].batch_no
        /\ \A j \in 1..Len(batches) : Cardinality(SinkCallsOfBatch(j)) = batches[j]

C27_Witness ==
    /\ Returned /\ has_sink /\ batch_size = 2 /\ Len(sunk) = 3
    /\ source[1] # source[2] /\ source[2] # source[3]
    /\ sunk[1].batch_no = 1 /\ sunk[2].batch_no = 1 /\ sunk[3].batch_no = 2

\* ------------------------------------------------------------------------
\* ingest_from_source runs on: connect, each next() of read_rows, each sink
\* call and disconnect return or raise, and the thread of the call keeps
\* running
\* ------------------------------------------------------------------------

SpecLive == Init /\ [][Next]_vars /\ WF_vars(Next)

\* C24: every run ends, by a return or by a raise; it returns only when
\* read_rows has stopped, every row of the source read or as many rows read as
\* the limit allows, and it raises only what connect, read_rows or the mapping
\* of a row raised.
C24_BatchModeTerminates ==
    /\ <>Done
    /\ [](Done =>
            /\ raised = "none" =>
                  \/ count = Len(source)
                  \/ Truthy(limit) /\ count = limit.v
            /\ raised # "none" =>
                  raised \in {"ConnectError", "ReadError"} \/ MappingRaised)

C24_Witness ==
    /\ Returned /\ Len(source) = 3 /\ limit = IntV(2) /\ count = 2
    /\ batch_size = 1 /\ has_sink /\ ~sunk[1].ok /\ ~sunk[2].ok

\* ------------------------------------------------------------------------
\* ingest_from_source with a mapping that names a field the source lacks
\* ------------------------------------------------------------------------

InitUnresolved ==
    /\ adapter \in {"csv", "sql"}
    /\ source \in Sources(adapter)
    /\ mapping = UnresolvedMapping
    /\ batch_size \in 1..MaxBatch
    /\ limit \in Limits
    /\ has_sink \in BOOLEAN
    /\ pc = "start"
    /\ pulled = 0
    /\ count = 0
    /\ batch = <<>>
    /\ total_ingested = 0
    /\ row_count = 0
    /\ batches = <<>>
    /\ sunk = <<>>
    /\ calls = <<>>
    /\ returned = NoneV
    /\ raised = "none"
    /\ MapIdle
    /\ ExtIdle

SpecUnresolved == InitUnresolved /\ [][Next]_vars

\* every source field the mapping names is a column the source declares
Resolvable(m, schema) ==
    \A i \in 1..Len(m.property_mappings) : m.property_mappings[i].source_column \in schema

\* C25 (as claimed): a mapping that names a field the source's schema does not
\* declare is caught when the first row is processed: no row gets through
\* under it, and a run that read a row ends by raising.
C25_UnresolvedFieldDetected ==
    ~Resolvable(mapping, get_schema(adapter)) =>
        /\ row_count = 0
        /\ Done => raised # "none" \/ count = 0

\* ------------------------------------------------------------------------
\* SchemaMapper: the value that is missing for map_row, as a primary key
\* ------------------------------------------------------------------------

\* C29 (as claimed): whenever the primary-key source field is one map_row
\* would leave out (absent from the row, or None), extract_primary_key
\* returns the empty string.
C29_MissingKeyIsEmpty ==
    call.fn = "extract_primary_key" =>
        (~IsPresent(RowGet(call.row, call.mapping.primary_key_mapping.source_column))
            => call.key = StrV(<<>>))

\* ------------------------------------------------------------------------
\* Two ingest_from_source calls at once on one Phonograph, each on a thread
\* of the executor (ingest_from_source_async) with an adapter of its own:
\* they share self.schema_mapper, which no call writes, and
\* self.sink_callback; every step of a call is a step of its thread
\* ------------------------------------------------------------------------

\* the call whose local `batch` call i appends to, flushes and counts
OneBatchForAll(i) == 1
BatchOwner(i) == i

\* the mapping of the second call: another object type
OtherMapping == [RunMapping(NoTransformation) EXCEPT !.object_type_id = "Other"]

\* a call about to start: arguments, then the locals of lines 66-68
NewRun(kind, rows, m, size, lim) ==
    [adapter |-> kind, source |-> rows, mapping |-> m, batch_size |-> size, limit |-> lim,
     pc |-> "start", pulled |-> 0, count |-> 0, batch |-> <<>>, total_ingested |-> 0,
     row_count |-> 0, batches |-> <<>>, todo |-> <<>>, after |-> "none",
     calls |-> <<>>, returned |-> NoneV, raised |-> "none"]

\* the sources of the two calls: the first rows of a CSV file and of a table
\* whose k-th row has the key k
TwoSources(kind) ==
    {[k \in 1..n |-> IF kind = "csv" THEN [id |-> StrV(NatStr(k)), val |-> StrV(Str10)]
                                     ELSE [id |-> IntV(k), val |-> StrV(StrAbc)]] :
        n \in 0..MaxTwoRows}

InitTwo ==
    /\ has_sink \in BOOLEAN
    /\ sunk = <<>>
    /\ \E s1 \in TwoSources("csv"), s2 \in TwoSources("sql"),
          n1 \in 1..MaxTwoRows, n2 \in 1..MaxTwoRows, lim \in {NoneV, IntV(1)} :
          runs = <<NewRun("csv", s1, RunMapping(NoTransformation), n1, lim),
                   NewRun("sql", s2, OtherMapping, n2, NoneV)>>
    /\ mapping = RunMapping(NoTransformation)
    /\ raised = "none"
    /\ NoRun
    /\ MapIdle
    /\ lookup = NoLookup
    /\ StreamIdle
    /\ async_call = NoAsync

twoFrame == <<adapter, source, mapping, batch_size, limit, has_sink, pc, pulled, count,
              batch, total_ingested, row_count, batches, calls, returned, raised,
              mapVars, lookup, streamVars, async_call>>

\* source_adapter.connect() of call i
RunConnect(i) ==
    /\ runs[i].pc = "start"
    /\ \E ok \in BOOLEAN :
          runs' = [runs EXCEPT ![i].calls = Append(@, "connect"),
                               ![i].pc = IF ok THEN "loop" ELSE OnException,
                               ![i].raised = IF ok THEN @ ELSE "ConnectError"]
    /\ UNCHANGED sunk
    /\ UNCHANGED twoFrame

\* lines 70-81 of call i: next() yields a row, the row is mapped and appended;
\* a full batch goes to _process_batch
RunNextRow(i) ==
    /\ runs[i].pc = "loop"
    /\ LET r == runs[i]
           n == read_next(r.adapter, r.source, r.limit, r.pulled, r.count)
       IN  /\ n.kind = "row"
           /\ LET source_row == r.source[n.pulled]
                  m == map_row(r.mapping, source_row)
                  primary_key == extract_primary_key(r.mapping, source_row)
                  b == Append(runs[BatchOwner(i)].batch,
                              <<r.mapping.object_type_id, primary_key, m.properties>>)
                  read == [runs EXCEPT ![i].pulled = n.pulled,
                                       ![i].count = @ + 1,
                                       ![i].calls = Append(@, "read")]
              IN  IF m.exc # "none"
                  THEN runs' = [read EXCEPT ![i].pc = OnException, ![i].raised = m.exc]
                  ELSE IF BatchFull(b, r.batch_size)
                  THEN runs' = [read EXCEPT ![BatchOwner(i)].batch = b,
                                            ![i].todo = b,
                                            ![i].after = "loop",
                                            ![i].pc = "dispatch"]
                  ELSE runs' = [read EXCEPT ![BatchOwner(i)].batch = b,
                                            ![i].row_count = @ + 1]
    /\ UNCHANGED sunk
    /\ UNCHANGED twoFrame

\* next() of call i raises
RunReadFails(i) ==
    /\ runs[i].pc = "loop"
    /\ runs' = [runs EXCEPT ![i].pc = OnException,
                            ![i].raised = "ReadError",
                            ![i].calls = Append(@, "read_error")]
    /\ UNCHANGED sunk
    /\ UNCHANGED twoFrame

\* lines 87-89 of call i: the iteration ends and what remains goes to
\* _process_batch
RunEndOfRows(i) ==
    /\ runs[i].pc = "loop"
    /\ LET r == runs[i]
           n == read_next(r.adapter, r.source, r.limit, r.pulled, r.count)
       IN  /\ n.kind = "stop"
           /\ runs' = [runs EXCEPT ![i].pulled = n.pulled,
                                   ![i].todo = runs[BatchOwner(i)].batch,
                                   ![i].after = "finally",
                                   ![i].pc = "dispatch"]
    /\ UNCHANGED sunk
    /\ UNCHANGED twoFrame

\* _process_batch of call i, one object at a time (lines 103-112): the sink
\* call returns or raises, and the loop goes on either way
RunSinkCall(i) ==
    /\ runs[i].pc = "dispatch"
    /\ runs[i].todo # <<>>
    /\ \E ok \in BOOLEAN :
          /\ sunk' = sunk \o
                IF has_sink
                THEN <<[obj |-> Head(runs[i].todo), ok |-> ok,
                        batch_no |-> Len(runs[i].batches) + 1, run |-> i]>>
                ELSE <<>>
          /\ runs' = [runs EXCEPT ![i].todo = Tail(@),
                                  ![i].calls = IF has_sink THEN Append(@, "sink") ELSE @]
    /\ UNCHANGED twoFrame

\* _process_batch of call i has returned: lines 83-86 in the loop, lines 90-93
\* after it
RunBatchDone(i) ==
    /\ runs[i].pc = "dispatch"
    /\ runs[i].todo = <<>>
    /\ LET r == runs[i]
           size == Len(runs[BatchOwner(i)].batch)
           counted == [runs EXCEPT ![i].total_ingested = @ + size,
                                   ![i].batches = Append(@, size),
                                   ![i].after = "none"]
       IN  IF r.after = "loop"
           THEN runs' = [counted EXCEPT ![BatchOwner(i)].batch = <<>>,
                                        ![i].row_count = @ + 1,
                                        ![i].pc = "loop"]
           ELSE runs' = [counted EXCEPT
                            ![i].batches = IF size = 0 THEN r.batches ELSE @,
                            ![i].returned = IntV(r.total_ingested + size),
                            ![i].pc = "finally"]
    /\ UNCHANGED sunk
    /\ UNCHANGED twoFrame

\* the finally clause of call i
RunDisconnect(i) ==
    /\ runs[i].pc = "finally"
    /\ runs' = [runs EXCEPT ![i].calls = Append(@, "disconnect"), ![i].pc = "done"]
    /\ UNCHANGED sunk
    /\ UNCHANGED twoFrame

NextTwo ==
    \E i \in {1, 2} :
        \/ RunConnect(i) \/ RunNextRow(i) \/ RunReadFails(i) \/ RunEndOfRows(i)
        \/ RunSinkCall(i) \/ RunBatchDone(i) \/ RunDisconnect(i)

SpecTwo == InitTwo /\ [][NextTwo]_vars

\* the sink calls of call i, in order
SunkOf(i) == SelectSeq(sunk, LAMBDA c : c.run = i)
RunObject(i, k) ==
    <<runs[i].mapping.object_type_id,
      extract_primary_key(runs[i].mapping, runs[i].source[k]),
      map_row(runs[i].mapping, runs[i].source[k]).properties>>
CallsOf(i, op) == {k \in 1..Len(runs[i].calls) : runs[i].calls[k] = op}

\* C30: however the steps of the two calls interleave, a call that returns
\* returns the number of rows its own source lets it read; every batch handed
\* to the sink holds objects of one call only, those of consecutive rows of
\* that call's source, so that the sink calls of a call are for the objects of
\* its own rows in order; and each call disconnects its adapter exactly once,
\* as its last step.
C30_ConcurrentRunsIndependent ==
    \A i \in {1, 2} :
        /\ (runs[i].pc = "done" /\ runs[i].raised = "none") =>
              /\ runs[i].returned = IntV(RowsToRead(runs[i].source, runs[i].limit))
              /\ runs[i].batches =
                    ExpectedBatches(runs[i].count, runs[i].batch_size)
        /\ \A k \in 1..Len(runs[i].batch) :
              runs[i].batch[k][1] = runs[i].mapping.object_type_id
        /\ \A k \in 1..Len(runs[i].todo) :
              runs[i].todo[k][1] = runs[i].mapping.object_type_id
        /\ has_sink =>
              /\ Len(SunkOf(i)) <= runs[i].count
              /\ \A k \in 1..Len(SunkOf(i)) :
                    /\ SunkOf(i)[k].obj = RunObject(i, k)
                    /\ SunkOf(i)[k].batch_no = Ceil(k, runs[i].batch_size)
        /\ Cardinality(CallsOf(i, "disconnect")) = IF runs[i].pc = "done" THEN 1 ELSE 0
        /\ runs[i].pc = "done" => runs[i].calls[Len(runs[i].calls)] = "disconnect"

\* both calls have returned, their sink calls having alternated
C30_Witness ==
    /\ \A i \in {1, 2} : runs[i].pc = "done" /\ runs[i].raised = "none"
    /\ has_sink /\ Len(sunk) = 4
    /\ sunk[1].run = 1 /\ sunk[2].run = 2 /\ sunk[3].run = 1 /\ sunk[4].run = 2
    /\ runs[1].batch_size = 2 /\ runs[2].batch_size = 2
    /\ runs[1].returned = IntV(2) /\ runs[2].returned = IntV(2)

====
